---- MODULE Spec2Model ----
(***************************************************************************)
(* Real-time O(1) fully persistent FIFO queue (src/src/rtqueue.rs).        *)
(*                                                                         *)
(* The heap of Rc<Node<T>> cells is a sequence of cells indexed by address *)
(* (None is address 0).  A cell lives while some queue value or some live  *)
(* cell refers to it (Rc's reference count); cells nobody refers to are    *)
(* released at the end of the operation that dropped the last reference.   *)
(* Addresses carry no meaning in the program (it never compares Rcs), so   *)
(* after each operation the live cells are numbered in the order a walk    *)
(* from the queue variables meets them.                                    *)
(* Queue values held by the program live in a fixed number of variables    *)
(* ("slots"); an operation reads one slot and stores its result in any     *)
(* slot, so the receiver is either kept (branching) or dropped.            *)
(***************************************************************************)
EXTENDS Integers, Sequences, FiniteSets, TLC

\* ---- bounds of the model ------------------------------------------------
MaxQueues == 2      \* queue variables the program holds at one time
MaxLen == 5         \* longest logical content a queue is grown to
MaxVal == 2         \* item values are 1..MaxVal
MaxMarked == 1      \* items other than 1 a queue is given at one time
MaxThreads == 2     \* threads calling into one queue at the same time

Slots == 1..MaxQueues
Values == 1..MaxVal
Threads == 1..MaxThreads

\* Option::None for Option<Rc<Node<T>>>; Some(rc) is the cell's address >= 1.
None == 0

VARIABLES
    heap,       \* Seq of cells: the Rc<Node<T>> allocations
    queues,     \* [Slots -> Queue]: the Queue<T> values the program holds
    ref,        \* [Slots -> Seq(Values)]: the abstract content of each slot
    ret,        \* what the last operation was called with and returned
    panicked,   \* "none", or the expect() that failed
    input,      \* the items from_iter is given
    threads     \* [Threads -> position of a thread inside its call]

vars == <<heap, queues, ref, ret, panicked, input, threads>>

\* ---- Zipper<T> and Node<T> ----------------------------------------------
Clean == [tag |-> "Clean", c |-> None, d |-> None]

Dirty(c, d) == [tag |-> "Dirty", c |-> c, d |-> d]

Node(value, next, zipper) == [value |-> value, next |-> next, zipper |-> zipper]

\* Rc::new(node): a fresh cell.
RcNew(h, node) == [heap |-> Append(h, node), addr |-> Len(h) + 1]

\* create_lazy marking the node x itself Dirty instead of building its copy.
create_lazy_in_place(h, x, y) ==
    IF x # None
    THEN IF y = None
         THEN [heap |-> h, res |-> None, panic |-> "create_lazy"]
         ELSE [heap |-> [h EXCEPT ![x].zipper = Dirty(y, None)],
               res |-> x, panic |-> "none"]
    ELSE [heap |-> h, res |-> y, panic |-> "none"]

\* Node::create_lazy(x, y)
create_lazy(h, x, y) ==
    IF x # None
    THEN IF y = None
         THEN [heap |-> h, res |-> None, panic |-> "create_lazy"]
         ELSE LET r == RcNew(h, Node(h[x].value, h[x].next, Dirty(y, None)))
              IN  [heap |-> r.heap, res |-> r.addr, panic |-> "none"]
    ELSE [heap |-> h, res |-> y, panic |-> "none"]

\* The last step's node left without its link to the reversed back stack.
new_next_node_unlinked(h, next, c_next, node) ==
    IF next # None
    THEN Node(h[next].value, h[next].next, Dirty(c_next, node))
    ELSE Node(h[c_next].value, None, Clean)

\* The node rotate_zipper installs as self.next.
new_next_node(h, next, c_next, node) ==
    IF next # None
    THEN Node(h[next].value, h[next].next, Dirty(c_next, node))
    ELSE Node(h[c_next].value, node, Clean)

\* rotate_zipper reading the zipper without replacing it by Clean.
rotate_zipper_keeps_dirty(h, self) ==
    IF h[self].zipper.tag = "Dirty"
    THEN LET c == h[self].zipper.c
             d == h[self].zipper.d
             r1 == RcNew(h, Node(h[c].value, d, Clean))
             c_next == r1.heap[c].next
         IN  IF c_next = None
             THEN [heap |-> h, panic |-> "rotate_zipper"]
             ELSE LET r2 == RcNew(r1.heap, new_next_node(r1.heap, r1.heap[self].next, c_next, r1.addr))
                  IN  [heap |-> [r2.heap EXCEPT ![self].next = r2.addr], panic |-> "none"]
    ELSE [heap |-> h, panic |-> "none"]

\* rotate_zipper giving a Clean node a fresh copy of its successor.
rotate_zipper_relinks(h, self) ==
    IF h[self].zipper.tag = "Dirty"
    THEN LET c == h[self].zipper.c
             d == h[self].zipper.d
             h1 == [h EXCEPT ![self].zipper = Clean]
             r1 == RcNew(h1, Node(h1[c].value, d, Clean))
             c_next == r1.heap[c].next
         IN  IF c_next = None
             THEN [heap |-> h1, panic |-> "rotate_zipper"]
             ELSE LET r2 == RcNew(r1.heap, new_next_node(r1.heap, r1.heap[self].next, c_next, r1.addr))
                  IN  [heap |-> [r2.heap EXCEPT ![self].next = r2.addr], panic |-> "none"]
    ELSE IF h[self].next = None
    THEN [heap |-> h, panic |-> "none"]
    ELSE LET r == RcNew(h, h[h[self].next])
         IN  [heap |-> [r.heap EXCEPT ![self].next = r.addr], panic |-> "none"]

\* rotate_zipper linking the node it moves to the front back to self.
rotate_zipper_links_back(h, self) ==
    IF h[self].zipper.tag = "Dirty"
    THEN LET c == h[self].zipper.c
             h1 == [h EXCEPT ![self].zipper = Clean]
             r1 == RcNew(h1, Node(h1[c].value, self, Clean))
             c_next == r1.heap[c].next
         IN  IF c_next = None
             THEN [heap |-> h1, panic |-> "rotate_zipper"]
             ELSE LET r2 == RcNew(r1.heap, new_next_node(r1.heap, r1.heap[self].next, c_next, r1.addr))
                  IN  [heap |-> [r2.heap EXCEPT ![self].next = r2.addr], panic |-> "none"]
    ELSE [heap |-> h, panic |-> "none"]

\* Node::rotate_zipper(&self)
rotate_zipper(h, self) ==
    IF h[self].zipper.tag = "Dirty"
    THEN LET c == h[self].zipper.c
             d == h[self].zipper.d
             h1 == [h EXCEPT ![self].zipper = Clean]
             r1 == RcNew(h1, Node(h1[c].value, d, Clean))
             c_next == r1.heap[c].next
         IN  IF c_next = None
             THEN [heap |-> h1, panic |-> "rotate_zipper"]
             ELSE LET r2 == RcNew(r1.heap,
                                  new_next_node(r1.heap, r1.heap[self].next,
                                                c_next, r1.addr))
                  IN  [heap |-> [r2.heap EXCEPT ![self].next = r2.addr],
                       panic |-> "none"]
    ELSE [heap |-> h, panic |-> "none"]

\* ---- Queue<T> -------------------------------------------------------------
Queue(front, back, jump) == [front |-> front, back |-> back, jump |-> jump]

\* Queue::default / Queue::new
new == Queue(None, None, None)

\* pop_front reading jump.next before it calls rotate_zipper.
pop_front_stale_jump(h, self) ==
    IF self.front = None
    THEN [heap |-> h, some |-> FALSE, queue |-> self, value |-> 0,
          panic |-> "none"]
    ELSE LET front == self.front
             res == h[front].value
         IN  IF self.jump # None
             THEN LET r == rotate_zipper(h, self.jump)
                  IN  [heap |-> r.heap, some |-> r.panic = "none",
                       queue |-> Queue(r.heap[front].next, self.back,
                                       h[self.jump].next),
                       value |-> res, panic |-> r.panic]
             ELSE LET z == create_lazy(h, h[front].next, self.back)
                  IN  [heap |-> z.heap, some |-> z.panic = "none",
                       queue |-> Queue(z.res, None, z.res),
                       value |-> res, panic |-> z.panic]

\* pop_front forcing the step at jump and the step at the node after it.
pop_front_two_steps(h, self) ==
    IF self.front = None
    THEN [heap |-> h, some |-> FALSE, queue |-> self, value |-> 0,
          panic |-> "none"]
    ELSE LET front == self.front
             res == h[front].value
         IN  IF self.jump # None
             THEN LET r1 == rotate_zipper(h, self.jump)
                      after == r1.heap[self.jump].next
                      r == IF r1.panic = "none" /\ after # None
                           THEN rotate_zipper(r1.heap, after) ELSE r1
                  IN  [heap |-> r.heap, some |-> r.panic = "none",
                       queue |-> Queue(r.heap[front].next, self.back,
                                       r.heap[self.jump].next),
                       value |-> res, panic |-> r.panic]
             ELSE LET z == create_lazy(h, h[front].next, self.back)
                  IN  [heap |-> z.heap, some |-> z.panic = "none",
                       queue |-> Queue(z.res, None, z.res),
                       value |-> res, panic |-> z.panic]

\* pop_front keeping the popped node as the front while a rotation is on.
pop_front_keeps_front(h, self) ==
    IF self.front = None
    THEN [heap |-> h, some |-> FALSE, queue |-> self, value |-> 0,
          panic |-> "none"]
    ELSE LET front == self.front
             res == h[front].value
         IN  IF self.jump # None
             THEN LET r == rotate_zipper(h, self.jump)
                  IN  [heap |-> r.heap, some |-> r.panic = "none",
                       queue |-> Queue(front, self.back,
                                       r.heap[self.jump].next),
                       value |-> res, panic |-> r.panic]
             ELSE LET z == create_lazy(h, h[front].next, self.back)
                  IN  [heap |-> z.heap, some |-> z.panic = "none",
                       queue |-> Queue(z.res, None, z.res),
                       value |-> res, panic |-> z.panic]

\* Queue::pop_front(&self): some = FALSE is the None result.
pop_front(h, self) ==
    IF self.front = None
    THEN [heap |-> h, some |-> FALSE, queue |-> self, value |-> 0,
          panic |-> "none"]
    ELSE LET front == self.front
             res == h[front].value
         IN  IF self.jump # None
             THEN LET r == rotate_zipper(h, self.jump)
                  IN  [heap |-> r.heap, some |-> r.panic = "none",
                       queue |-> Queue(r.heap[front].next, self.back,
                                       r.heap[self.jump].next),
                       value |-> res, panic |-> r.panic]
             ELSE LET z == create_lazy(h, h[front].next, self.back)
                  IN  [heap |-> z.heap, some |-> z.panic = "none",
                       queue |-> Queue(z.res, None, z.res),
                       value |-> res, panic |-> z.panic]

\* push_back leaving the new node off the back stack while a rotation is on.
push_back_drops_node(h, self, v) ==
    LET n == RcNew(h, Node(v, self.back, Clean))
        new_node == n.addr
    IN  IF self.jump # None
        THEN LET r == rotate_zipper(n.heap, self.jump)
             IN  [heap |-> r.heap,
                  queue |-> Queue(self.front, self.back, r.heap[self.jump].next),
                  panic |-> r.panic]
        ELSE LET z == create_lazy(n.heap, self.front, new_node)
             IN  [heap |-> z.heap, queue |-> Queue(z.res, None, z.res),
                  panic |-> z.panic]

\* push_back advancing jump without forcing the step at it.
push_back_skips_step(h, self, v) ==
    LET n == RcNew(h, Node(v, self.back, Clean))
        new_node == n.addr
    IN  IF self.jump # None
        THEN [heap |-> n.heap,
              queue |-> Queue(self.front, new_node, n.heap[self.jump].next),
              panic |-> "none"]
        ELSE LET z == create_lazy(n.heap, self.front, new_node)
             IN  [heap |-> z.heap, queue |-> Queue(z.res, None, z.res),
                  panic |-> z.panic]

\* Queue::push_back(&self, v)
push_back(h, self, v) ==
    LET n == RcNew(h, Node(v, self.back, Clean))
        new_node == n.addr
    IN  IF self.jump # None
        THEN LET r == rotate_zipper(n.heap, self.jump)
             IN  [heap |-> r.heap,
                  queue |-> Queue(self.front, new_node, r.heap[self.jump].next),
                  panic |-> r.panic]
        ELSE LET z == create_lazy(n.heap, self.front, new_node)
             IN  [heap |-> z.heap, queue |-> Queue(z.res, None, z.res),
                  panic |-> z.panic]

\* QueueIter::next driven to exhaustion (Vec::from_iter(&q), Debug::fmt):
\* dat is the iterator's own queue, acc the items yielded so far.
RECURSIVE iterate(_, _, _)
iterate(h, dat, acc) ==
    LET p == pop_front(h, dat)
    IN  IF p.panic # "none" THEN [heap |-> p.heap, out |-> acc, panic |-> p.panic]
        ELSE IF ~p.some THEN [heap |-> p.heap, out |-> acc, panic |-> "none"]
        ELSE iterate(p.heap, p.queue, Append(acc, p.value))

\* IntoIterator for &Queue: the iterator starts from a clone of the queue.
into_iter(h, q) == iterate(h, q, <<>>)

\* FromIterator: fold push_back over the items, from Queue::new().
RECURSIVE fold_push(_, _, _)
fold_push(h, q, s) ==
    IF s = <<>> THEN [heap |-> h, queue |-> q, panic |-> "none"]
    ELSE LET p == push_back(h, q, Head(s))
         IN  IF p.panic # "none" THEN [heap |-> p.heap, queue |-> q, panic |-> p.panic]
             ELSE fold_push(p.heap, p.queue, Tail(s))

from_iter(h, s) == fold_push(h, new, s)

\* ---- Rc reference counting ------------------------------------------------
\* The references the program holds, in the order of its variables.
RootSeq(qs) ==
    [k \in 1..(3 * MaxQueues) |->
        LET q == qs[((k - 1) \div 3) + 1]
        IN  CASE (k - 1) % 3 = 0 -> q.front
              [] (k - 1) % 3 = 1 -> q.back
              [] OTHER -> q.jump]

SeqRange(s) == {s[k] : k \in 1..Len(s)}

\* The cells reached from the references todo, in the order a depth-first
\* walk over next, then the zipper's two references, first meets them.
RECURSIVE Visit(_, _, _)
Visit(h, todo, order) ==
    IF todo = <<>> THEN order
    ELSE LET a == Head(todo)
         IN  IF a = None \/ a \in SeqRange(order)
             THEN Visit(h, Tail(todo), order)
             ELSE Visit(h, <<h[a].next, h[a].zipper.c, h[a].zipper.d>> \o Tail(todo),
                        Append(order, a))

\* Drop of every Rc whose count reached zero: only the cells the queue
\* variables reach stay, numbered in the order of the walk.
Release(h, qs) ==
    LET order == Visit(h, RootSeq(qs), <<>>)
        at(a) == IF a = None THEN None
                 ELSE CHOOSE k \in 1..Len(order) : order[k] = a
        cell(n) == Node(n.value, at(n.next),
                        IF n.zipper.tag = "Dirty"
                        THEN Dirty(at(n.zipper.c), at(n.zipper.d)) ELSE Clean)
    IN  [heap |-> [k \in 1..Len(order) |-> cell(h[order[k]])],
         queues |-> [j \in Slots |->
                        Queue(at(qs[j].front), at(qs[j].back), at(qs[j].jump))]]

\* ---- the work of one call --------------------------------------------------
\* The Node values a call constructed: the cells heap h2 has beyond h.
Built(h, h2) == Len(h2) - Len(h)

\* The rotation steps a call performed: the cells Dirty in h and Clean in h2.
Discharged(h, h2) ==
    Cardinality({a \in 1..Len(h) :
                    h[a].zipper.tag = "Dirty" /\ h2[a].zipper.tag = "Clean"})

\* ---- the program ------------------------------------------------------------
NoRet == [op |-> "init", src |-> 0, dst |-> 0, some |-> FALSE, value |-> 0,
          seq |-> <<>>, nodes |-> 0, steps |-> 0]

\* A thread that is not inside a call.  Inside one: op and v are the call,
\* node the cell push_back built, c and d what zipper.replace returned, res
\* the queue returned, want the content that queue stands for, stale whether
\* jump.next was read while another thread was inside the step at jump.
IdleThread ==
    [pc |-> "idle", op |-> "none", v |-> 0, node |-> None, c |-> None,
     d |-> None, res |-> new, stale |-> FALSE, want |-> <<>>]

Init ==
    /\ heap = <<>>
    /\ queues = [j \in Slots |-> new]
    /\ ref = [j \in Slots |-> <<>>]
    /\ ret = NoRet
    /\ panicked = "none"
    /\ input = <<>>
    /\ threads = [t \in Threads |-> IdleThread]

\* A failed expect() aborts the program.
Abort(h, what) ==
    /\ panicked' = what
    /\ heap' = h
    /\ UNCHANGED <<queues, ref, ret, input, threads>>

\* queues[j] = Queue::new()
New(j) ==
    /\ panicked = "none"
    /\ LET g == Release(heap, [queues EXCEPT ![j] = new])
       IN  heap' = g.heap /\ queues' = g.queues
    /\ ref' = [ref EXCEPT ![j] = <<>>]
    /\ ret' = [NoRet EXCEPT !.op = "new", !.dst = j]
    /\ UNCHANGED <<panicked, input, threads>>

\* queues[j] = queues[i].push_back(v)
PushBack(i, j, v) ==
    /\ panicked = "none"
    /\ Len(ref[i]) < MaxLen
    /\ v = 1 \/ Cardinality({k \in 1..Len(ref[i]) : ref[i][k] # 1}) < MaxMarked
    /\ LET r == push_back(heap, queues[i], v)
       IN  IF r.panic # "none" THEN Abort(r.heap, r.panic)
           ELSE /\ LET g == Release(r.heap, [queues EXCEPT ![j] = r.queue])
                   IN  heap' = g.heap /\ queues' = g.queues
                /\ ref' = [ref EXCEPT ![j] = Append(ref[i], v)]
                /\ ret' = [NoRet EXCEPT !.op = "push_back", !.src = i, !.dst = j,
                                        !.value = v,
                                        !.nodes = Built(heap, r.heap),
                                        !.steps = Discharged(heap, r.heap)]
                /\ UNCHANGED <<panicked, input, threads>>

\* if let Some((q, x)) = queues[i].pop_front() { queues[j] = q }
PopFront(i, j) ==
    /\ panicked = "none"
    /\ LET r == pop_front(heap, queues[i])
       IN  IF r.panic # "none" THEN Abort(r.heap, r.panic)
           ELSE IF ~r.some
           THEN /\ ret' = [NoRet EXCEPT !.op = "pop_front", !.src = i, !.dst = j]
                /\ LET g == Release(r.heap, queues)
                   IN  heap' = g.heap /\ queues' = g.queues
                /\ UNCHANGED <<ref, panicked, input, threads>>
           ELSE /\ LET g == Release(r.heap, [queues EXCEPT ![j] = r.queue])
                   IN  heap' = g.heap /\ queues' = g.queues
                /\ ref' = [ref EXCEPT ![j] = Tail(ref[i])]
                /\ ret' = [NoRet EXCEPT !.op = "pop_front", !.src = i, !.dst = j,
                                        !.some = TRUE, !.value = r.value,
                                        !.nodes = Built(heap, r.heap),
                                        !.steps = Discharged(heap, r.heap)]
                /\ UNCHANGED <<panicked, input, threads>>

\* Vec::from_iter(&queues[i])
ReadOut(i) ==
    /\ panicked = "none"
    /\ LET r == into_iter(heap, queues[i])
       IN  IF r.panic # "none" THEN Abort(r.heap, r.panic)
           ELSE /\ LET g == Release(r.heap, queues)
                   IN  heap' = g.heap /\ queues' = g.queues
                /\ ret' = [NoRet EXCEPT !.op = "read_out", !.src = i, !.seq = r.out,
                                        !.nodes = Built(heap, r.heap),
                                        !.steps = Discharged(heap, r.heap)]
                /\ UNCHANGED <<ref, panicked, input, threads>>

\* queues[j] = Queue::from_iter(input)
FromIter(j) ==
    /\ panicked = "none"
    /\ LET r == from_iter(heap, input)
       IN  IF r.panic # "none" THEN Abort(r.heap, r.panic)
           ELSE /\ LET g == Release(r.heap, [queues EXCEPT ![j] = r.queue])
                   IN  heap' = g.heap /\ queues' = g.queues
                /\ ref' = [ref EXCEPT ![j] = input]
                /\ ret' = [NoRet EXCEPT !.op = "from_iter", !.dst = j, !.seq = input]
                /\ UNCHANGED <<panicked, input, threads>>

Next ==
    \/ \E j \in Slots : New(j)
    \/ \E i, j \in Slots, v \in Values : PushBack(i, j, v)
    \/ \E i, j \in Slots : PopFront(i, j)
    \/ \E i \in Slots : ReadOut(i)

Spec == Init /\ [][Next]_vars

\* A program that collects its input into queues, pops them and reads
\* them out.
RECURSIVE SeqsUpTo(_)
SeqsUpTo(n) ==
    IF n = 0 THEN {<<>>}
    ELSE LET S == SeqsUpTo(n - 1)
         IN  S \cup {Append(s, v) : s \in {t \in S : Len(t) = n - 1}, v \in Values}

InitIter ==
    /\ heap = <<>>
    /\ queues = [j \in Slots |-> new]
    /\ ref = [j \in Slots |-> <<>>]
    /\ ret = NoRet
    /\ panicked = "none"
    /\ input \in SeqsUpTo(MaxLen)
    /\ threads = [t \in Threads |-> IdleThread]

NextIter ==
    \/ \E j \in Slots : FromIter(j)
    \/ \E i, j \in Slots : PopFront(i, j)
    \/ \E i \in Slots : ReadOut(i)

SpecIter == InitIter /\ [][NextIter]_vars

\* ---- two threads calling into one queue --------------------------------------
\* Rc, Cell and RefCell are not synchronised.  Were the queue in slot 1 handed
\* to several threads, each call would run as the accesses to shared cells it
\* is made of: zipper.replace (Replace), the write of self.next that ends
\* rotate_zipper (Link), and the reads of front.next and jump.next that build
\* the returned queue (Read).
Receiver == queues[1]

AllIdle == \A t \in Threads : threads[t].pc = "idle"

\* Thread t enters push_back(v) or pop_front on the receiver.  Nothing shared
\* is written when the queue is empty or jump is absent (create_lazy only
\* builds cells), so the call returns at once; otherwise it goes on to
\* jump.rotate_zipper().
Call(t, op, v) ==
    /\ panicked = "none"
    /\ threads[t].pc = "idle"
    /\ LET self == Receiver
           want == IF op = "push_back" THEN Append(ref[1], v)
                   ELSE IF ref[1] = <<>> THEN <<>> ELSE Tail(ref[1])
           me == [IdleThread EXCEPT !.op = op, !.v = v, !.want = want]
       IN  IF op = "pop_front" /\ self.front = None
           THEN /\ threads' = [threads EXCEPT ![t] = [me EXCEPT !.pc = "done"]]
                /\ UNCHANGED <<heap, panicked>>
           ELSE IF self.jump = None
           THEN LET r == IF op = "push_back" THEN push_back(heap, self, v)
                         ELSE pop_front(heap, self)
                IN  IF r.panic # "none" THEN Abort(r.heap, r.panic)
                    ELSE /\ heap' = r.heap
                         /\ threads' = [threads EXCEPT ![t] =
                                [me EXCEPT !.pc = "done", !.res = r.queue]]
                         /\ UNCHANGED panicked
           ELSE IF op = "push_back"
           THEN LET n == RcNew(heap, Node(v, self.back, Clean))
                IN  /\ heap' = n.heap
                    /\ threads' = [threads EXCEPT ![t] =
                           [me EXCEPT !.pc = "replace", !.node = n.addr]]
                    /\ UNCHANGED panicked
           ELSE /\ threads' = [threads EXCEPT ![t] = [me EXCEPT !.pc = "replace"]]
                /\ UNCHANGED <<heap, panicked>>
    /\ UNCHANGED <<queues, ref, ret, input>>

\* self.zipper.replace(Zipper::Clean) on the receiver's jump.
Replace(t) ==
    /\ panicked = "none"
    /\ threads[t].pc = "replace"
    /\ LET jump == Receiver.jump
           old == heap[jump].zipper
       IN  /\ heap' = [heap EXCEPT ![jump].zipper = Clean]
           /\ threads' = [threads EXCEPT ![t] =
                  IF old.tag = "Dirty"
                  THEN [@ EXCEPT !.pc = "link", !.c = old.c, !.d = old.d]
                  ELSE [@ EXCEPT !.pc = "read"]]
    /\ UNCHANGED <<queues, ref, ret, panicked, input>>

\* The rest of rotate_zipper for the thread that was handed Dirty(c, d): the
\* two cells are built and self.next is replaced.
Link(t) ==
    /\ panicked = "none"
    /\ threads[t].pc = "link"
    /\ LET jump == Receiver.jump
           r1 == RcNew(heap, Node(heap[threads[t].c].value, threads[t].d, Clean))
           c_next == heap[threads[t].c].next
       IN  IF c_next = None THEN Abort(heap, "rotate_zipper")
           ELSE LET r2 == RcNew(r1.heap, new_next_node(r1.heap, r1.heap[jump].next, c_next, r1.addr))
                IN  /\ heap' = [r2.heap EXCEPT ![jump].next = r2.addr]
                    /\ threads' = [threads EXCEPT ![t].pc = "read"]
                    /\ UNCHANGED <<queues, ref, ret, panicked, input>>

\* The Queue { front, back, jump } the call returns, read from the cells as
\* they are now.
Read(t) ==
    /\ panicked = "none"
    /\ threads[t].pc = "read"
    /\ LET self == Receiver
           q == IF threads[t].op = "push_back"
                THEN Queue(self.front, threads[t].node, heap[self.jump].next)
                ELSE Queue(heap[self.front].next, self.back, heap[self.jump].next)
       IN  threads' = [threads EXCEPT ![t] =
               [@ EXCEPT !.pc = "done", !.res = q,
                         !.stale = \E u \in Threads : threads[u].pc = "link"]]
    /\ UNCHANGED <<heap, queues, ref, ret, panicked, input>>

\* One owner grows and shrinks the queue in slot 1; then the threads call
\* into it.
NextConc ==
    \/ AllIdle /\ \E v \in Values : PushBack(1, 1, v)
    \/ AllIdle /\ PopFront(1, 1)
    \/ \E t \in Threads, v \in Values : Call(t, "push_back", v)
    \/ \E t \in Threads : Call(t, "pop_front", 0)
    \/ \E t \in Threads : Replace(t)
    \/ \E t \in Threads : Link(t)
    \/ \E t \in Threads : Read(t)

SpecConc == Init /\ [][NextConc]_vars

\* ---- reading a state ----------------------------------------------------------
\* What reading out queue q yields from heap h.
ReadSeq(h, q) == into_iter(h, q).out

\* The cells met by following next links from a, as they stand (nothing forced).
RECURSIVE Chain(_, _)
Chain(h, a) == IF a = None THEN <<>> ELSE <<a>> \o Chain(h, h[a].next)

\* The values on that chain.
Items(h, a) == LET c == Chain(h, a) IN [k \in 1..Len(c) |-> h[c[k]].value]

Reverse(s) == [k \in 1..Len(s) |-> s[Len(s) + 1 - k]]

IsDirty(h, a) == h[a].zipper.tag = "Dirty"

\* The cells reference a reaches, over next links and zipper references.
ReachFrom(h, a) == SeqRange(Visit(h, <<a>>, <<>>))

\* The slot the last operation stored a queue in (0: it stored none).
Stored ==
    IF ret.op \in {"new", "push_back", "from_iter"} \/ (ret.op = "pop_front" /\ ret.some)
    THEN ret.dst ELSE 0

\* ---- claims ---------------------------------------------------------------------

\* C1 (persistence): whatever a step does (a push_back, pop_front or read-out,
\* on the same queue or on one derived from it), every queue value the program
\* keeps reads out the same after the step as before it; and a branch
\* b = a.push_back(x) reads as a's content followed by x.
C1_Persistence ==
    [][ /\ \A k \in Slots :
              k # Stored' => ReadSeq(heap', queues'[k]) = ReadSeq(heap, queues[k])
        /\ ret'.op = "push_back" =>
              ReadSeq(heap', queues'[ret'.dst])
                  = Append(ReadSeq(heap, queues[ret'.src]), ret'.value)
      ]_vars

\* A branch b = a.push_back(x) kept beside a, whose push forced a rotation step
\* on a node of a.
C1_Witness ==
    /\ ret.op = "push_back" /\ ret.src # ret.dst /\ ret.steps = 1
    /\ Len(ref[ret.src]) >= 3
    /\ ReadSeq(heap, queues[ret.src]) = ref[ret.src]
    /\ ReadSeq(heap, queues[ret.dst]) = Append(ref[ret.src], ret.value)

\* C2 (FIFO order), under SpecIter: on a queue built by pushing v1..vn from
\* new(), the k-th successive pop_front yields vk, and pop_front yields None
\* only once all n have been popped.
C2_FifoOrder ==
    ret.op = "pop_front" =>
        IF ret.some
        THEN LET k == Len(input) - Len(ref[ret.dst])
             IN  k \in 1..Len(input) /\ ret.value = input[k]
        ELSE ref[ret.src] = <<>>

\* The last of n >= 3 pushed items has just been popped.
C2_Witness ==
    /\ ret.op = "pop_front" /\ ret.some
    /\ Len(input) >= 3 /\ ref[ret.dst] = <<>>
    /\ ret.value = input[Len(input)]

\* C3 (refinement of an abstract sequence): with s the abstract content of the
\* receiver, push_back(v) yields a queue that reads s ++ [v]; pop_front returns
\* None exactly when s is empty, and otherwise Head(s) and a queue that reads
\* Tail(s); and after every step every queue held reads as its abstract content.
C3_Refinement ==
    [][ /\ \A k \in Slots : ReadSeq(heap', queues'[k]) = ref'[k]
        /\ ret'.op = "push_back" =>
              ReadSeq(heap', queues'[ret'.dst]) = Append(ref[ret'.src], ret'.value)
        /\ ret'.op = "pop_front" =>
              /\ ret'.some <=> ref[ret'.src] # <<>>
              /\ ret'.some =>
                    /\ ret'.value = Head(ref[ret'.src])
                    /\ ReadSeq(heap', queues'[ret'.dst]) = Tail(ref[ret'.src])
      ]_vars

\* A pop_front that branched off a queue of 4 or more items while a rotation
\* was in progress.
C3_Witness ==
    /\ ret.op = "pop_front" /\ ret.some /\ ret.src # ret.dst /\ ret.steps = 1
    /\ Len(ref[ret.src]) >= 4
    /\ ref[ret.dst] = Tail(ref[ret.src])

\* C4 (emptiness): pop_front on any queue whose abstract content is empty
\* (new(), or every pushed item popped again) returns None and fails nowhere.
C4_Emptiness ==
    \A j \in Slots :
        ref[j] = <<>> =>
            LET p == pop_front(heap, queues[j])
            IN  ~p.some /\ p.panic = "none" /\ p.heap = heap

\* A successful pop_front has just removed the last item of a queue.
C4_Witness ==
    /\ ret.op = "pop_front" /\ ret.some
    /\ ref[ret.dst] = <<>>
    /\ ~pop_front(heap, queues[ret.dst]).some

\* C5 (worst-case bound): a push_back constructs at most 3 nodes, a pop_front
\* at most 2, and each performs at most one rotation step.
C5_WorstCase ==
    /\ ret.op = "push_back" => ret.nodes <= 3 /\ ret.steps <= 1
    /\ ret.op = "pop_front" => ret.nodes <= 2 /\ ret.steps <= 1

\* A push_back onto a queue of 3 or more items that constructed 3 nodes and
\* performed a rotation step.
C5_Witness ==
    /\ ret.op = "push_back" /\ ret.nodes = 3 /\ ret.steps = 1
    /\ Len(ref[ret.dst]) >= 4

\* C6 (the imbalance assertions are unreachable): no operation the program
\* performs fails an expect().
C6_NoImbalance == panicked = "none"

\* A pop_front whose create_lazy was given a present front suffix, so that
\* the back stack had to be present: it constructed the rotation's first node.
C6_Witness ==
    /\ ret.op = "pop_front" /\ ret.some /\ ret.nodes = 1 /\ ret.steps = 0
    /\ queues[ret.dst].jump # None /\ IsDirty(heap, queues[ret.dst].jump)
    /\ panicked = "none"

\* C7 (round trip), under SpecIter: the queue from_iter builds from the input
\* reads out as the input, right after it is built and at any later read-out.
C7_RoundTrip ==
    /\ ret.op = "from_iter" => ReadSeq(heap, queues[ret.dst]) = input
    /\ (ret.op = "read_out" /\ ref[ret.src] = input) => ret.seq = input

\* A read-out of a queue collected from 3 or more items, which had to force
\* a rotation step.
C7_Witness ==
    /\ ret.op = "read_out" /\ ret.seq = input
    /\ Len(input) >= 3 /\ ret.steps >= 1

\* C8 (read-out is non-mutating and restartable): a read-out leaves the
\* read-out of every queue held unchanged, and reading the same queue again
\* yields the same sequence.
C8_ReadOutPure ==
    [][ ret'.op = "read_out" =>
            /\ \A k \in Slots :
                  ReadSeq(heap', queues'[k]) = ReadSeq(heap, queues[k])
            /\ ReadSeq(heap', queues'[ret'.src]) = ret'.seq
            /\ ref' = ref
      ]_vars

\* A read-out that forced rotation steps, while another queue with different
\* content has its jump on the chain that was read.
C8_Witness ==
    /\ ret.op = "read_out" /\ ret.steps >= 1
    /\ \E k \in Slots :
          /\ k # ret.src /\ ref[k] # ref[ret.src]
          /\ queues[k].jump # None
          /\ queues[k].jump \in SeqRange(Chain(heap, queues[ret.src].front))

\* C9 as stated: a queue whose jump is absent has no back, and its front chain
\* is its whole content.
C9_AsStated ==
    \A j \in Slots :
        queues[j].jump = None =>
            queues[j].back = None /\ Items(heap, queues[j].front) = ref[j]

\* C9 (amended): a queue whose jump is absent has no Dirty node on its front
\* chain, a back stack exactly as long as its front chain, and as content
\* the front chain followed by the back stack reversed.
C9_SteadyState ==
    \A j \in Slots :
        queues[j].jump = None =>
            LET f == Chain(heap, queues[j].front)
                b == Chain(heap, queues[j].back)
            IN  /\ \A k \in 1..Len(f) : ~IsDirty(heap, f[k])
                /\ Len(b) = Len(f)
                /\ ref[j] = Items(heap, queues[j].front)
                               \o Reverse(Items(heap, queues[j].back))

\* A queue of 4 items whose jump is absent: two on the front chain, two on
\* the back stack.
C9_Witness ==
    \E j \in Slots :
        /\ queues[j].jump = None /\ Len(ref[j]) = 4
        /\ Len(Chain(heap, queues[j].back)) = 2

\* C10 as stated: jump is present exactly when some node reachable from front
\* is Dirty.
C10_AsStated ==
    \A j \in Slots :
        queues[j].jump # None
            <=> \E a \in ReachFrom(heap, queues[j].front) : IsDirty(heap, a)

\* C10 (amended): if some node reachable from a queue's front is Dirty then
\* its jump is present, and every Dirty node on its front chain is the jump
\* node or lies after it on that chain.
C10_JumpFlag ==
    \A j \in Slots :
        /\ (\E a \in ReachFrom(heap, queues[j].front) : IsDirty(heap, a))
              => queues[j].jump # None
        /\ \A a \in SeqRange(Chain(heap, queues[j].front)) :
              IsDirty(heap, a) => a \in SeqRange(Chain(heap, queues[j].jump))

\* A queue whose jump is a Clean node while the Dirty node lies after it:
\* another queue has already forced the step at its jump.
C10_Witness ==
    \E j \in Slots :
        /\ queues[j].jump # None /\ ~IsDirty(heap, queues[j].jump)
        /\ heap[queues[j].jump].next # None
        /\ IsDirty(heap, heap[queues[j].jump].next)

\* The Dirty cells queue q refers to, directly or through other cells.
DirtyOf(h, q) ==
    {a \in ReachFrom(h, q.front) \cup ReachFrom(h, q.back) \cup ReachFrom(h, q.jump) :
        IsDirty(h, a)}

\* The calls on queue q after which no Dirty cell is left: jump moves one cell
\* per call along the chain the Dirty cell lies on, and that chain ends where
\* the rotation does.
Debt(h, q) == IF DirtyOf(h, q) = {} THEN 0 ELSE Len(Chain(h, q.jump))

\* C11 (a merge completes before the next begins): a push_back or pop_front
\* on a receiver whose jump is absent finds no Dirty node reachable from the
\* receiver and leaves at most k calls owed, k being the length of the front
\* chain the rotation is initiated over; on a receiver whose jump is present
\* it leaves at least one call fewer owed than the receiver owed (none if it
\* owed none); and no step raises what a queue that is kept owes.  So k calls
\* after a rotation over k nodes was initiated, no Dirty node is left.
C11_MergeCompletes ==
    [][ /\ \A k \in Slots :
              k # Stored' => Debt(heap', queues'[k]) <= Debt(heap, queues[k])
        /\ (ret'.op = "push_back" \/ (ret'.op = "pop_front" /\ ret'.some)) =>
              LET q == queues[ret'.src]
                  owed == Debt(heap, q)
                  over == IF ret'.op = "push_back"
                          THEN Len(Chain(heap, q.front))
                          ELSE Len(Chain(heap, q.front)) - 1
              IN  IF q.jump = None
                  THEN /\ DirtyOf(heap, q) = {}
                       /\ Debt(heap', queues'[ret'.dst]) <= over
                  ELSE Debt(heap', queues'[ret'.dst])
                          <= (IF owed = 0 THEN 0 ELSE owed - 1)
      ]_vars

\* The second pop_front after a rotation over a front chain of two nodes was
\* initiated: it forced the second step, and no Dirty node is left.
C11_Witness ==
    /\ ret.op = "pop_front" /\ ret.some /\ ret.steps = 1
    /\ Len(ref[ret.dst]) = 3
    /\ DirtyOf(heap, queues[ret.dst]) = {}

\* n rotation steps forced in the order push_back and pop_front force them:
\* the step at a, then the step at the cell its rewritten next names.
RECURSIVE Force(_, _, _)
Force(h, a, n) ==
    IF n = 0 \/ a = None THEN [heap |-> h, panic |-> "none"]
    ELSE LET r == rotate_zipper(h, a)
         IN  IF r.panic # "none" THEN r
             ELSE Force(r.heap, r.heap[a].next, n - 1)

\* The heads of rotations of which no step was forced yet: create_lazy alone
\* builds a Dirty cell whose d is absent.
MergeHeads(h) ==
    {a \in 1..Len(h) : IsDirty(h, a) /\ h[a].zipper.d = None}

\* C12 (the merged order): a rotation initiated over the front chain f1..fk
\* and the back stack r1..r(k+1) gives, once its k steps are forced, a chain
\* from its head that reads f1..fk, r(k+1), ..., r1 and whose cells are all
\* Clean.
C12_MergedOrder ==
    \A a \in MergeHeads(heap) :
        LET f == Items(heap, a)
            r == Items(heap, heap[a].zipper.c)
            done == Force(heap, a, Len(f))
        IN  /\ Len(f) >= 1
            /\ Len(r) = Len(f) + 1
            /\ done.panic = "none"
            /\ Items(done.heap, a) = f \o Reverse(r)
            /\ \A b \in SeqRange(Chain(done.heap, a)) : ~IsDirty(done.heap, b)

\* A rotation over a front chain of two cells and a back stack of three was
\* just initiated by push_back; the back stack holds an item other than the
\* front chain's, so the order of the merged chain shows.
C12_Witness ==
    /\ ret.op = "push_back"
    /\ \E a \in MergeHeads(heap) :
          /\ queues[ret.dst].front = a
          /\ Len(Items(heap, a)) = 2
          /\ Items(heap, heap[a].zipper.c) # Reverse(Items(heap, heap[a].zipper.c))

\* What one call may do to the cells of h, h2 being the heap it leaves: a
\* Clean cell is left as it is; a Dirty cell is left as it is, or becomes
\* Clean with its value kept and its next naming a cell built by the call.
WriteOnce(h, h2) ==
    /\ Len(h2) >= Len(h)
    /\ \A a \in 1..Len(h) :
          \/ h2[a] = h[a]
          \/ /\ IsDirty(h, a)
             /\ h2[a].zipper = Clean
             /\ h2[a].value = h[a].value
             /\ h2[a].next \in (Len(h) + 1)..Len(h2)

\* C13 (write-once node state): whatever is called on whatever queue or node
\* is held, a node goes from Dirty to Clean at most, never from Clean to
\* Dirty; its value never changes; its next is overwritten only in the step
\* that takes it from Dirty to Clean, hence once at most; a Clean node, one
\* built Clean included, is never modified.
C13_WriteOnce ==
    /\ \A a \in 1..Len(heap) : WriteOnce(heap, rotate_zipper(heap, a).heap)
    /\ \A i \in Slots :
          /\ WriteOnce(heap, pop_front(heap, queues[i]).heap)
          /\ WriteOnce(heap, into_iter(heap, queues[i]).heap)
          /\ \A v \in Values : WriteOnce(heap, push_back(heap, queues[i], v).heap)

\* A rotation one step of which was forced: the cell named by jump is Dirty,
\* the cell before it was taken from Dirty to Clean, and the next pop_front
\* takes the one at jump from Dirty to Clean and overwrites its next.
C13_Witness ==
    /\ ret.steps = 1
    /\ \E i \in Slots :
          LET j == queues[i].jump
          IN  /\ j # None
              /\ IsDirty(heap, j)
              /\ heap[j].zipper.d # None
              /\ pop_front(heap, queues[i]).heap[j].zipper = Clean
              /\ pop_front(heap, queues[i]).heap[j].next # heap[j].next

\* C14 (forcing a Clean node is a no-op): rotate_zipper on a Clean node
\* builds no node and leaves every node as it is, so forcing a step a second
\* time changes nothing; a push_back or pop_front on a queue whose jump was
\* already forced through another queue builds nothing but the pushed node
\* and takes for its new jump the next link the first forcing installed.
C14_CleanNoOp ==
    /\ \A a \in 1..Len(heap) :
          LET once == rotate_zipper(heap, a)
          IN  /\ ~IsDirty(heap, a) => once.heap = heap
              /\ rotate_zipper(once.heap, a).heap = once.heap
    /\ \A i \in Slots :
          LET q == queues[i]
          IN  (q.jump # None /\ ~IsDirty(heap, q.jump)) =>
                  /\ pop_front(heap, q).heap = heap
                  /\ pop_front(heap, q).queue.jump = heap[q.jump].next
                  /\ \A v \in Values :
                        /\ push_back(heap, q, v).heap
                              = Append(heap, Node(v, q.back, Clean))
                        /\ push_back(heap, q, v).queue.jump = heap[q.jump].next

\* An operation on one queue forced the step at the jump of a queue that is
\* kept: the kept queue's jump is Clean, and its next link is the jump of the
\* queue the operation returned.
C14_Witness ==
    /\ ret.op \in {"push_back", "pop_front"}
    /\ ret.steps = 1
    /\ ret.src # ret.dst
    /\ queues[ret.src].jump # None
    /\ ~IsDirty(heap, queues[ret.src].jump)
    /\ heap[queues[ret.src].jump].next = queues[ret.dst].jump
    /\ IsDirty(heap, queues[ret.dst].jump)

\* Thread t was returned a queue that does not stand for the logical content
\* of its call: reading it out fails an expect() or yields other items.
Broken(t) ==
    LET r == into_iter(heap, threads[t].res)
    IN  r.panic # "none" \/ r.out # threads[t].want

\* C15 (uncoordinated concurrent use is unsafe): with the rotation step split
\* into zipper.replace and the later write of next, a call is returned a
\* broken queue only if it found the jump node Clean and read its next while
\* the thread that made it Clean had not yet written it; calls that read no
\* such link are returned a queue standing for their logical content.  The
\* state the claim says is reachable is C15_Witness.
C15_StaleLinkOnly ==
    \A t \in Threads :
        (threads[t].pc = "done" /\ Broken(t)) => threads[t].stale

\* A thread found the jump node Clean, read its not yet rewritten next, and
\* was returned a queue whose read-out is not its logical content or fails an
\* expect().
C15_Witness ==
    \E t \in Threads :
        /\ threads[t].pc = "done"
        /\ threads[t].stale
        /\ Broken(t)

\* The cells a cell refers to: its next, and c and d of a Dirty zipper.
Refs(h, a) ==
    ({h[a].next} \cup (IF IsDirty(h, a) THEN {h[a].zipper.c, h[a].zipper.d} ELSE {}))
        \ {None}

\* No cell is reached from a cell it refers to.
Acyclic(h) ==
    \A a \in 1..Len(h) : \A b \in Refs(h, a) : a \notin ReachFrom(h, b)

\* C16 (acyclicity): the graph of next links and of the c and d references of
\* Dirty zippers has no cycle, in every state and after rotate_zipper has
\* overwritten the next of any node.
C16_Acyclic ==
    /\ Acyclic(heap)
    /\ \A a \in 1..Len(heap) : Acyclic(rotate_zipper(heap, a).heap)

\* pop_front forced a step of a rotation that goes on: next was overwritten
\* with a Dirty cell whose c and d both refer to cells.
C16_Witness ==
    /\ ret.op = "pop_front"
    /\ ret.steps = 1
    /\ \E a \in 1..Len(heap) :
          /\ ~IsDirty(heap, a)
          /\ heap[a].next # None
          /\ IsDirty(heap, heap[a].next)
          /\ {heap[heap[a].next].zipper.c, heap[heap[a].next].zipper.d}
                 \subseteq Refs(heap, heap[a].next)

\* The position of cell a on the chain from front (0 when it is not on it).
Pos(h, front, a) ==
    LET c == Chain(h, front)
    IN  IF a \in SeqRange(c) THEN CHOOSE k \in 1..Len(c) : c[k] = a ELSE 0

\* The nodes whose next a call on q reads to build the queue it returns,
\* after the jump.rotate_zipper() that comes first when jump is present:
\* front and jump for pop_front, jump for push_back.
LinksRead(q) == {q.front, q.jump} \ {None}

\* C17 (no stale link is followed): in every queue that is held, the nodes
\* whose next push_back or pop_front reads to build its result are Clean when
\* read, that is once the step at jump is forced; and jump, when present,
\* lies on the chain from front, every node before it on that chain is Clean,
\* and at most one node of the chain is Dirty, at jump or after it; with jump
\* absent no node of the chain is Dirty.
C17_NoStaleLink ==
    \A i \in Slots :
        LET q == queues[i]
            c == Chain(heap, q.front)
            dirty == {k \in 1..Len(c) : IsDirty(heap, c[k])}
            forced == IF q.jump = None THEN heap
                      ELSE rotate_zipper(heap, q.jump).heap
        IN  /\ \A a \in LinksRead(q) : ~IsDirty(forced, a)
            /\ Cardinality(dirty) <= 1
            /\ IF q.jump = None THEN dirty = {}
               ELSE /\ Pos(heap, q.front, q.jump) >= 1
                    /\ \A k \in dirty : k >= Pos(heap, q.front, q.jump)

\* pop_front forced the first step of a rotation and read the links of front
\* and jump after it: the queue it returned has the Dirty node at its jump,
\* and the receiver, which is kept, has it after its jump.
C17_Witness ==
    /\ ret.op = "pop_front" /\ ret.some /\ ret.steps = 1
    /\ ret.src # ret.dst
    /\ IsDirty(heap, queues[ret.dst].jump)
    /\ Pos(heap, queues[ret.src].front, queues[ret.dst].jump)
          > Pos(heap, queues[ret.src].front, queues[ret.src].jump)

\* The heap once every rotation step pending in q is forced: reading q out
\* forces the step at each node jump comes to.
Forced(h, q) == into_iter(h, q).heap

\* C18 (schedule length): for every queue held, with |front| the length of
\* the front chain once the pending steps are forced, |back| the length of
\* the back stack and |jump| the number of nodes from jump to the end of that
\* chain (0 when jump is absent): |jump| = |front| - |back|; so |back| <=
\* |front|, an absent front comes with an absent back and jump, and jump is
\* absent, which is when push_back calls create_lazy, exactly when
\* |front| = |back|.
C18_ScheduleLength ==
    \A i \in Slots :
        LET q == queues[i]
            hf == Forced(heap, q)
            nfront == Len(Chain(hf, q.front))
            nback == Len(Chain(heap, q.back))
            njump == Len(Chain(hf, q.jump))
        IN  /\ njump = nfront - nback
            /\ nback <= nfront
            /\ q.front = None => (q.back = None /\ q.jump = None)
            /\ q.jump = None <=> nfront = nback
            /\ \A v \in Values :
                  LET p == push_back(heap, q, v).queue
                  IN  (p.back = None /\ p.front = p.jump) <=> nfront = nback

\* pop_front returned a queue with a rotation step pending at its jump:
\* forcing lengthens its front chain, from one node to four, and the nodes
\* from jump on are as many, the back stack being absent.
C18_Witness ==
    /\ ret.op = "pop_front" /\ ret.some
    /\ LET q == queues[ret.dst]
       IN  /\ q.jump # None
           /\ q.back = None
           /\ Len(Chain(heap, q.front)) = 1
           /\ Len(Chain(Forced(heap, q), q.jump)) = 4

\* The calls of create_lazy a queue with jump absent leads to: push_back(v)
\* passes front and the node it built, pop_front passes front.next and back.
\* h is the heap at the call, x and y the arguments, want the content of the
\* queue returned.
LazyCalls(h, q, content) ==
    IF q.jump # None THEN {}
    ELSE {[h |-> RcNew(h, Node(v, q.back, Clean)).heap, x |-> q.front,
           y |-> RcNew(h, Node(v, q.back, Clean)).addr,
           want |-> Append(content, v)] : v \in Values}
         \cup (IF q.front = None THEN {}
               ELSE {[h |-> h, x |-> h[q.front].next, y |-> q.back,
                      want |-> Tail(content)]})

\* C19 (the base case of the merge keeps the order): every call of
\* create_lazy made with an absent front suffix is passed a back stack of
\* exactly one node, and returns that node itself, which, taken as front and
\* jump of the new queue, reads as the queue's logical content.
C19_BaseCase ==
    \A i \in Slots :
        \A call \in LazyCalls(heap, queues[i], ref[i]) :
            call.x = None =>
                LET z == create_lazy(call.h, call.x, call.y)
                IN  /\ Len(Chain(call.h, call.y)) = 1
                    /\ z.panic = "none"
                    /\ z.res = call.y
                    /\ z.heap = call.h
                    /\ ReadSeq(z.heap, Queue(z.res, None, z.res)) = call.want

\* pop_front removed the only front element of a queue whose jump was absent:
\* the receiver is kept, and its one-node back stack is the front and jump of
\* the queue returned.
C19_Witness ==
    /\ ret.op = "pop_front" /\ ret.some
    /\ ret.src # ret.dst
    /\ ret.nodes = 0
    /\ LET q == queues[ret.src]
           p == queues[ret.dst]
       IN  /\ q.jump = None
           /\ heap[q.front].next = None
           /\ q.back # None
           /\ p = Queue(q.back, None, q.back)

====
